---- MODULE Spec2Model ----
(***************************************************************************)
(* Model of the YTS transcript server.                                     *)
(*   src/index.js          : the full variant (POST /get_transcript and    *)
(*                           ALL /api/transcript, helper fetchTranscript)  *)
(*   src/unnamed/part_000  : the minimal variant (GET /api/transcript)     *)
(* A request is one run of an async handler.  The handler runs             *)
(* synchronously up to each `await YoutubeTranscript.fetchTranscript(..)`, *)
(* the collaborator settles the call, and the handler resumes.             *)
(* Texts are sequences of one-character strings, error messages are        *)
(* sequences of words, so that join, decode, padStart and includes are     *)
(* computed and not assumed.                                               *)
(***************************************************************************)
EXTENDS Integers, Sequences, FiniteSets, TLC

\* ------------------------------------------------------------------ bounds
NReq == 3
MaxSegs == 2

Reqs == 1..NReq

\* ------------------------------------------------------------- text values
\* the entity e stands at position i of s
matchAt(s, i, e) ==
    i + Len(e) - 1 <= Len(s) /\ SubSeq(s, i, i + Len(e) - 1) = e

EntAmp == <<"&", "a", "m", "p", ";">>
EntLt == <<"&", "l", "t", ";">>

\* decode of html-entities: one left-to-right pass, each entity replaced by
\* its character, the replacement is not scanned again.  from[i] is the
\* decoding of s from position i on.
decode(s) ==
    LET from[i \in 1..(Len(s) + 1)] ==
            IF i > Len(s) THEN <<>>
            ELSE IF matchAt(s, i, EntAmp) THEN <<"&">> \o from[i + Len(EntAmp)]
            ELSE IF matchAt(s, i, EntLt) THEN <<"<">> \o from[i + Len(EntLt)]
            ELSE <<s[i]>> \o from[i + 1]
    IN  from[1]

\* transcript.map(entry => entry.text)
texts(transcript) == [i \in 1..Len(transcript) |-> transcript[i].text]

\* Array.prototype.join(sep)
join(parts, sep) ==
    LET from[i \in 1..(Len(parts) + 1)] ==
            IF i > Len(parts) THEN <<>>
            ELSE IF i = Len(parts) THEN parts[i]
            ELSE parts[i] \o sep \o from[i + 1]
    IN  from[1]

Space == <<" ">>

\* part_000: rawText = transcript.map(entry => entry.text).join(' ')
rawText(transcript) == join(texts(transcript), Space)

\* part_000: fullText = decode(decode(rawText))
fullTextMinimal(transcript) == decode(decode(rawText(transcript)))

\* index.js: fullText = transcript.map(entry => entry.text).join(' ')
fullText(transcript) == join(texts(transcript), Space)

\* Number.prototype.toString for a non-negative integer
DigitChar(d) == <<"0", "1", "2", "3", "4", "5", "6", "7", "8", "9">>[d + 1]

RECURSIVE toString(_)
toString(n) ==
    IF n < 10 THEN <<DigitChar(n)>>
    ELSE toString(n \div 10) \o <<DigitChar(n % 10)>>

\* String.prototype.padStart(2, '0')
padStart2(s) == IF Len(s) >= 2 THEN s ELSE <<"0">> \o s

\* index.js: `[${minutes...}:${seconds...}] `
timestamp(offset) ==
    LET minutes == offset \div 60000
        seconds == (offset % 60000) \div 1000
    IN  <<"[">> \o padStart2(toString(minutes)) \o <<":">>
        \o padStart2(toString(seconds)) \o <<"]", " ">>

\* index.js: formattedTranscript += `${timestamp}${entry.text}\n`
formattedTranscript(transcript) ==
    LET from[i \in 1..(Len(transcript) + 1)] ==
            IF i > Len(transcript) THEN <<>>
            ELSE timestamp(transcript[i].offset) \o transcript[i].text
                 \o <<"\n">> \o from[i + 1]
    IN  from[1]

\* ---------------------------------------------------------- error messages
MsgNoTranscript == <<"No", "transcript", "found", "for", "this", "video">>
MsgNoVideoId == <<"Please", "provide", "a", "valid", "YouTube", "video", "ID">>
MsgMustBeJson == <<"Request", "must", "be", "JSON">>
MsgUnavailable == <<"The", "video", "is", "unavailable">>
MsgDisabled == <<"Transcripts", "are", "disabled", "for", "this", "video">>
MsgOccurred == <<"An", "error", "occurred:">>

\* String.prototype.includes, on words
includes(msg, sub) ==
    \E i \in 1..(Len(msg) - Len(sub) + 1) : SubSeq(msg, i, i + Len(sub) - 1) = sub


\* --------------------------------------------------------- response values
Absent == [type |-> "absent", text |-> <<>>, segs |-> <<>>]
TextVal(t) == [type |-> "text", text |-> t, segs |-> <<>>]
SegsVal(t) == [type |-> "segments", text |-> <<>>, segs |-> t]

\* An error envelope sent without res.status(code): the status stays 200.
errorEnvelopeNoStatus(code, message) ==
    [status |-> 200,
     body |-> [success |-> FALSE, error |-> message, video_id |-> "",
               format |-> "", language |-> "", transcript |-> Absent,
               full_text |-> Absent, raw_transcript |-> Absent]]

\* res.status(code).json({ error: message })
errorEnvelope(code, message) ==
    [status |-> code,
     body |-> [success |-> FALSE, error |-> message, video_id |-> "",
               format |-> "", language |-> "", transcript |-> Absent,
               full_text |-> Absent, raw_transcript |-> Absent]]

\* A catch block that tests 'disabled' before 'No transcript found' and
\* answers every remaining message with the generic 500.
errorResponseGeneric(message) ==
    IF includes(message, <<"unavailable">>) THEN errorEnvelope(404, MsgUnavailable)
    ELSE IF includes(message, <<"disabled">>) THEN errorEnvelope(403, MsgDisabled)
    ELSE errorEnvelope(500, MsgOccurred \o message)

\* The catch block of every handler: the status is chosen by substring.
errorResponse(message) ==
    IF includes(message, <<"unavailable">>) THEN errorEnvelope(404, MsgUnavailable)
    ELSE IF includes(message, <<"No", "transcript", "found">>)
         THEN errorEnvelope(404, MsgNoTranscript)
    ELSE IF includes(message, <<"disabled">>) THEN errorEnvelope(403, MsgDisabled)
    ELSE errorEnvelope(500, MsgOccurred \o message)

\* ----------------------------------------------------------------- requests
NoHint == "<none>"

\* `req.query.video_id || ''` (GET) / `req.body.video_id || ''` (POST); the
\* ALL route leaves the initial '' for any other method.
videoId(q) ==
    IF q.endpoint = "full_api" /\ q.method \notin {"GET", "POST"} THEN ""
    ELSE q.video_id

\* `... .language || 'en'`
language(q) ==
    IF q.endpoint = "full_api" /\ q.method \notin {"GET", "POST"} THEN "en"
    ELSE IF q.language = "" THEN "en" ELSE q.language

\* `... .format || 'raw'`
formatType(q) ==
    IF q.endpoint = "full_api" /\ q.method \notin {"GET", "POST"} THEN "raw"
    ELSE IF q.format = "" THEN "raw" ELSE q.format

\* index.js: `if (!req.is('application/json'))` on the POST branch
rejectsContentType(q) ==
    q.endpoint = "full_api" /\ q.method = "POST" /\ ~q.json

\* Validation that lets an empty id through to the resolver.
rejectsVideoIdNever(q) == FALSE

\* `if (!videoId)`
rejectsVideoId(q) == videoId(q) = ""

\* A fallback that tries Polish after every failed first attempt.
fallbackLangAlways(lang) == "pl"

\* `if (language === 'en')` : which fetch follows the failed first attempt
fallbackLang(lang) == IF lang = "en" THEN "pl" ELSE NoHint

Exhausted == "<throw>"

\* A chain that goes from the requested language straight to the no-hint
\* fetch.
nextAttemptSkipPl(lang, at) ==
    IF at = "await_lang" THEN NoHint
    ELSE IF at = "await_pl" THEN NoHint
    ELSE Exhausted

\* The nested catch blocks: the fetch that follows a failed one, or the
\* final throw.
nextAttempt(lang, at) ==
    IF at = "await_lang" THEN fallbackLang(lang)
    ELSE IF at = "await_pl" THEN NoHint
    ELSE Exhausted

\* A label that does not look at the segment list.
detectedLangConst(transcript) == "auto-detected"

\* index.js: transcript && transcript.length > 0 ? 'auto-detected' : 'unknown'
detectedLang(transcript) ==
    IF Len(transcript) > 0 THEN "auto-detected" ELSE "unknown"

\* The label of a successful no-hint fetch, per variant.
autoLabel(q, transcript) ==
    IF q.endpoint = "min_api" THEN "auto-detected" ELSE detectedLang(transcript)

\* A resolver that labels the Polish fallback with the language asked for.
labelOfRequested(q, at, transcript) ==
    IF at = "await_any" THEN autoLabel(q, transcript) ELSE language(q)

\* The resolved language returned with a transcript, by the await that
\* succeeded.
labelOf(q, at, transcript) ==
    IF at = "await_lang" THEN language(q)
    ELSE IF at = "await_pl" THEN "pl"
    ELSE autoLabel(q, transcript)

\* res.json({ success: true, ... }) of each handler
successResponse(q, transcript, lang) ==
    LET base == [success |-> TRUE, error |-> <<>>, video_id |-> "",
                 format |-> "", language |-> lang, transcript |-> Absent,
                 full_text |-> Absent, raw_transcript |-> Absent]
    IN  [status |-> 200,
         body |->
           IF q.endpoint = "min_api"
           THEN [base EXCEPT !.video_id = videoId(q),
                             !.transcript = TextVal(fullTextMinimal(transcript))]
           ELSE IF q.endpoint = "get_transcript"
           THEN [base EXCEPT !.transcript = TextVal(formattedTranscript(transcript)),
                             !.full_text = TextVal(fullText(transcript)),
                             !.raw_transcript = SegsVal(transcript)]
           ELSE IF formatType(q) = "full_text"
           THEN [base EXCEPT !.video_id = videoId(q), !.format = "full_text",
                             !.transcript = TextVal(fullText(transcript))]
           ELSE [base EXCEPT !.video_id = videoId(q), !.format = "raw",
                             !.transcript = SegsVal(transcript)]]

\* ------------------------------------------------------------ input spaces
Seg(t, o, d) == [text |-> t, offset |-> o, duration |-> d]

SegPool ==
    { Seg(<<"H", "i">>, 0, 1000),
      Seg(EntAmp \o <<"R">>, 65000, 2000),
      Seg(<<"&", "a", "m", "p", ";", "a", "m", "p", ";", "l", "t", ";">>, 125000, 3000) }

\* Segment lists the collaborator can return: ascending offsets, at most
\* MaxSegs long, the empty list included.
Transcripts ==
    { t \in UNION { [1..n -> SegPool] : n \in 0..MaxSegs } :
        \A i \in 1..(Len(t) - 1) : t[i].offset < t[i + 1].offset }

\* Messages the collaborator can fail with.
FetchErrors ==
    { <<"Transcript", "is", "disabled", "on", "this", "video">>,
      <<"Video", "unavailable">>,
      <<"Too", "many", "requests">> }

Req(e, m, j, v, l, f) ==
    [endpoint |-> e, method |-> m, json |-> j, video_id |-> v,
     language |-> l, format |-> f]

VideoIds == {"", "dQw4"}
Languages == {"", "en", "fr", "pl"}
Formats == {"", "raw", "full_text"}

Requests ==
    { Req("min_api", "GET", FALSE, v, l, "") : v \in VideoIds, l \in Languages }
    \cup { Req("get_transcript", "POST", FALSE, v, l, "") :
             v \in VideoIds, l \in Languages }
    \cup { Req("full_api", "GET", FALSE, v, l, f) :
             v \in VideoIds, l \in Languages, f \in Formats }
    \cup { Req("full_api", "POST", TRUE, v, l, f) :
             v \in VideoIds, l \in Languages, f \in Formats }
    \cup { Req("full_api", "POST", FALSE, v, "", "") : v \in VideoIds }
    \cup { Req("full_api", "PUT", FALSE, "dQw4", "", "") }

\* The smaller input space of the concurrent specification.
ConcTranscripts == { <<Seg(EntAmp \o <<"R">>, 65000, 2000)>> }
ConcErrors == { <<"Too", "many", "requests">> }
ConcRequests ==
    { Req("min_api", "GET", FALSE, "dQw4", "en", ""),
      Req("full_api", "GET", FALSE, "dQw4", "fr", "full_text") }

\* -------------------------------------------------------------------- state
VARIABLES
    pc,         \* pc[r]: where the handler of request r stands
    req,        \* req[r]: the request as received
    calls,      \* calls[r]: the fetch calls of the request, in issue order
    result,     \* result[r]: what the fallback resolver returned or threw
    responses   \* responses[r]: the responses sent for the request

vars == <<pc, req, calls, result, responses>>

NoRequest == Req("", "", FALSE, "", "", "")
NoResult == [status |-> "none", transcript |-> <<>>, language |-> "", message |-> <<>>]
Returned(t, l) == [status |-> "ok", transcript |-> t, language |-> l, message |-> <<>>]
Thrown(m) == [status |-> "thrown", transcript |-> <<>>, language |-> "", message |-> m]

Pending(l) == [lang |-> l, status |-> "pending", segs |-> <<>>, msg |-> <<>>]
Last(s) == s[Len(s)]

\* Request parameters kept in variables shared by all handler runs: a
\* resumed handler sees the parameters of another request in flight.
requestOfShared(r) ==
    req[CHOOSE o \in Reqs :
          /\ pc[o] # "idle"
          /\ \A p \in Reqs : pc[p] # "idle" => p <= o]

\* videoId, language and formatType are locals of one handler run.
requestOf(r) == req[r]

Init ==
    /\ pc = [r \in Reqs |-> "idle"]
    /\ req = [r \in Reqs |-> NoRequest]
    /\ calls = [r \in Reqs |-> <<>>]
    /\ result = [r \in Reqs |-> NoResult]
    /\ responses = [r \in Reqs |-> <<>>]

\* The handler from its entry to the first await (or to an early return).
Arrive(r, Q) ==
    /\ pc[r] = "idle"
    /\ \E q \in Q :
        /\ req' = [req EXCEPT ![r] = q]
        /\ IF rejectsContentType(q)
           THEN /\ responses' = [responses EXCEPT
                                   ![r] = Append(@, errorEnvelope(400, MsgMustBeJson))]
                /\ pc' = [pc EXCEPT ![r] = "done"]
                /\ UNCHANGED calls
           ELSE IF rejectsVideoId(q)
           THEN /\ responses' = [responses EXCEPT
                                   ![r] = Append(@, errorEnvelope(400, MsgNoVideoId))]
                /\ pc' = [pc EXCEPT ![r] = "done"]
                /\ UNCHANGED calls
           ELSE /\ calls' = [calls EXCEPT ![r] = <<Pending(language(q))>>]
                /\ pc' = [pc EXCEPT ![r] = "await_lang"]
                /\ UNCHANGED responses
    /\ UNCHANGED result

\* The collaborator settles the pending call: it returns a segment list or
\* fails with a message.
FetchSettle(r, T, E) ==
    /\ pc[r] \in {"await_lang", "await_pl", "await_any"}
    /\ Last(calls[r]).status = "pending"
    /\ \/ \E t \in T :
            calls' = [calls EXCEPT ![r][Len(calls[r])] =
                        [@ EXCEPT !.status = "ok", !.segs = t]]
       \/ \E m \in E :
            calls' = [calls EXCEPT ![r][Len(calls[r])] =
                        [@ EXCEPT !.status = "err", !.msg = m]]
    /\ UNCHANGED <<pc, req, result, responses>>

\* The handler resumes after the await: it answers, or issues the next fetch
\* of the fallback chain.
Resume(r) ==
    /\ pc[r] \in {"await_lang", "await_pl", "await_any"}
    /\ Last(calls[r]).status # "pending"
    /\ LET c == Last(calls[r])
           q == requestOf(r)
           next == nextAttempt(language(q), pc[r])
       IN  IF c.status = "ok"
           THEN LET lang == labelOf(q, pc[r], c.segs)
                IN  /\ result' = [result EXCEPT ![r] = Returned(c.segs, lang)]
                    /\ responses' = [responses EXCEPT
                                       ![r] = Append(@, successResponse(q, c.segs, lang))]
                    /\ pc' = [pc EXCEPT ![r] = "done"]
                    /\ UNCHANGED calls
           ELSE IF next # Exhausted
           THEN /\ calls' = [calls EXCEPT ![r] = Append(@, Pending(next))]
                /\ pc' = [pc EXCEPT ![r] =
                            IF next = "pl" THEN "await_pl" ELSE "await_any"]
                /\ UNCHANGED <<result, responses>>
           ELSE /\ result' = [result EXCEPT ![r] = Thrown(MsgNoTranscript)]
                /\ responses' = [responses EXCEPT
                                   ![r] = Append(@, errorResponse(MsgNoTranscript))]
                /\ pc' = [pc EXCEPT ![r] = "done"]
                /\ UNCHANGED calls
    /\ UNCHANGED req

\* One request in isolation, over the whole input space.
First == CHOOSE r \in Reqs : \A o \in Reqs : r <= o

Next ==
    \/ Arrive(First, Requests)
    \/ FetchSettle(First, Transcripts, FetchErrors)
    \/ Resume(First)

Spec == Init /\ [][Next]_vars

\* The same, with the scheduling of the runtime: a settled promise resumes
\* its handler, and the collaborator settles every call.
FairSpec ==
    Spec /\ WF_vars(FetchSettle(First, Transcripts, FetchErrors)) /\ WF_vars(Resume(First))

\* Several requests in flight, interleaved at every await.
NextConc ==
    \E r \in Reqs :
        \/ Arrive(r, ConcRequests)
        \/ FetchSettle(r, ConcTranscripts, ConcErrors)
        \/ Resume(r)

ConcSpec == Init /\ [][NextConc]_vars


\* ------------------------------------------------------------------ claims
Answered(r) == pc[r] = "done" /\ Len(responses[r]) = 1
Reply(r) == responses[r][1]
Succeeded(r) == Answered(r) /\ Reply(r).body.success
EnFailedPlOk(r) ==
    /\ language(req[r]) = "en"
    /\ Len(calls[r]) >= 2
    /\ calls[r][1].lang = "en" /\ calls[r][1].status = "err"
    /\ calls[r][2].lang = "pl" /\ calls[r][2].status = "ok"

\* C1: when the request asks for "en" (or for nothing), the "en" fetch has
\* failed and the "pl" fetch has succeeded, no no-hint fetch is ever issued,
\* and once the handler has answered, the resolver has returned language
\* "pl" with exactly the segments of the "pl" fetch, and the response is a
\* success that reports "pl" and is built from those segments.
C1_PolishFallback ==
    \A r \in Reqs :
        EnFailedPlOk(r) =>
            /\ \A i \in 1..Len(calls[r]) : calls[r][i].lang # NoHint
            /\ Len(calls[r]) = 2
            /\ pc[r] = "done" =>
                /\ result[r] = Returned(calls[r][2].segs, "pl")
                /\ Succeeded(r)
                /\ Reply(r) = successResponse(req[r], calls[r][2].segs, "pl")
                /\ Reply(r).body.language = "pl"
                /\ Reply(r).body.raw_transcript.type = "segments"
                     => Reply(r).body.raw_transcript.segs = calls[r][2].segs
                /\ Reply(r).body.transcript.type = "segments"
                     => Reply(r).body.transcript.segs = calls[r][2].segs

C1_Witness ==
    \E r \in Reqs :
        /\ EnFailedPlOk(r) /\ Succeeded(r)
        /\ req[r].language = ""
        /\ Len(calls[r][2].segs) = 2
        /\ result[r].language = "pl"

\* C2: when the requested language is not "en" and its fetch has failed,
\* the second fetch of the request is the no-hint fetch, and no fetch after
\* the first one has lang "pl".
C2_NonEnglishSkipsPolish ==
    \A r \in Reqs :
        (/\ Len(calls[r]) >= 1
         /\ language(req[r]) # "en"
         /\ calls[r][1].status = "err") =>
            /\ Len(calls[r]) >= 2 => calls[r][2].lang = NoHint
            /\ \A i \in 2..Len(calls[r]) : calls[r][i].lang # "pl"
            /\ pc[r] # "await_pl"

C2_Witness ==
    \E r \in Reqs :
        /\ req[r].language = "fr"
        /\ Len(calls[r]) = 2
        /\ calls[r][1].lang = "fr" /\ calls[r][1].status = "err"
        /\ calls[r][2].lang = NoHint

AllFailed(r) ==
    /\ Len(calls[r]) >= 1
    /\ \A i \in 1..Len(calls[r]) : calls[r][i].status = "err"

\* C3: when every fetch of the chain has failed, whatever the messages, no
\* success is sent, and once the handler has answered, the resolver has
\* thrown 'No transcript found for this video' and the one response is 404
\* with that error.
C3_ExhaustionIs404 ==
    \A r \in Reqs :
        AllFailed(r) =>
            /\ \A i \in 1..Len(responses[r]) : ~responses[r][i].body.success
            /\ pc[r] = "done" =>
                /\ result[r] = Thrown(MsgNoTranscript)
                /\ responses[r] = <<errorEnvelope(404, MsgNoTranscript)>>

C3_Witness ==
    \E r \in Reqs :
        /\ AllFailed(r) /\ pc[r] = "done"
        /\ Len(calls[r]) = 3
        /\ includes(calls[r][1].msg, <<"unavailable">>)
        /\ includes(calls[r][3].msg, <<"disabled">>)
        /\ Reply(r).status = 404

EmptyVideoId(r) ==
    /\ pc[r] # "idle"
    /\ req[r].method \in {"GET", "POST"}
    /\ req[r].video_id = ""

\* C4 as stated: on every endpoint an empty or absent video_id is answered
\* with 400 'Please provide a valid YouTube video ID' and no fetch is made.
C4_AsStated ==
    \A r \in Reqs :
        EmptyVideoId(r) =>
            /\ calls[r] = <<>>
            /\ responses[r] = <<errorEnvelope(400, MsgNoVideoId)>>

\* C4: on every endpoint an empty or absent video_id is answered with
\* status 400 and no fetch is made; the body is 'Please provide a valid
\* YouTube video ID', except for a POST to /api/transcript of the full
\* variant whose content type is not JSON, where it is 'Request must be
\* JSON'.
C4_EmptyVideoIdIs400 ==
    \A r \in Reqs :
        EmptyVideoId(r) =>
            /\ calls[r] = <<>>
            /\ pc[r] = "done"
            /\ result[r] = NoResult
            /\ responses[r] =
                 <<errorEnvelope(400,
                     IF req[r].endpoint = "full_api" /\ req[r].method = "POST"
                        /\ ~req[r].json
                     THEN MsgMustBeJson ELSE MsgNoVideoId)>>

C4_Witness ==
    \E r \in Reqs :
        /\ EmptyVideoId(r)
        /\ req[r].endpoint = "get_transcript"
        /\ responses[r] = <<errorEnvelope(400, MsgNoVideoId)>>

\* C5 as stated: when the fetches of a request fail because captions are
\* disabled, the resolver throws that failure unchanged and the response is
\* 403 'Transcripts are disabled for this video'.
C5_AsStated ==
    \A r \in Reqs :
        (/\ pc[r] = "done"
         /\ AllFailed(r)
         /\ \A i \in 1..Len(calls[r]) : includes(calls[r][i].msg, <<"disabled">>)) =>
            /\ result[r] = Thrown(calls[r][1].msg)
            /\ responses[r] = <<errorEnvelope(403, MsgDisabled)>>

LabelCase(r, lang) ==
    LET c == Last(calls[r])
    IN  \/ /\ lang = language(req[r])
           /\ Len(calls[r]) = 1
        \/ /\ lang = "pl"
           /\ language(req[r]) = "en"
           /\ Len(calls[r]) = 2 /\ c.lang = "pl"
        \/ /\ lang = "auto-detected"
           /\ Len(calls[r]) >= 2 /\ c.lang = NoHint

\* C6 as stated: every success reports the requested language (first fetch
\* succeeded), "pl" ("en" requested, "pl" fetch succeeded) or
\* "auto-detected" (no-hint fetch succeeded), and nothing else.
C6_AsStated ==
    \A r \in Reqs :
        Succeeded(r) =>
            /\ Last(calls[r]).status = "ok"
            /\ LabelCase(r, Reply(r).body.language)

\* C6: every success reports the requested language (first fetch
\* succeeded), "pl" ("en" requested, "pl" fetch succeeded), or the label of
\* a successful no-hint fetch, which is "auto-detected" in the minimal
\* variant and for a non-empty segment list in the full variant, and
\* "unknown" for an empty segment list in the full variant.
C6_ReportedLanguage ==
    \A r \in Reqs :
        Succeeded(r) =>
            LET c == Last(calls[r])
                lang == Reply(r).body.language
                emptyFull == /\ req[r].endpoint # "min_api"
                             /\ Len(calls[r]) >= 2 /\ c.lang = NoHint
                             /\ c.segs = <<>>
            IN  /\ c.status = "ok"
                /\ result[r].language = lang
                /\ IF emptyFull THEN lang = "unknown" ELSE LabelCase(r, lang)

C6_Witness ==
    \E r \in Reqs :
        /\ Succeeded(r)
        /\ req[r].endpoint = "full_api"
        /\ Last(calls[r]).lang = NoHint
        /\ Last(calls[r]).segs = <<>>
        /\ Reply(r).body.language = "unknown"

\* C7 as stated: every full-text transcript (minimal /api/transcript, full
\* /api/transcript with format=full_text) is the segment texts joined with
\* one space and entity-decoded twice.
C7_AsStated ==
    \A r \in Reqs :
        (/\ Succeeded(r)
         /\ \/ req[r].endpoint = "min_api"
            \/ req[r].endpoint = "full_api" /\ formatType(req[r]) = "full_text") =>
            Reply(r).body.transcript =
                TextVal(decode(decode(join(texts(Last(calls[r]).segs), Space))))

ChainOrder(r) ==
    LET c == calls[r]
        lang == language(req[r])
    IN  /\ Len(c) >= 1 => c[1].lang = lang
        /\ Len(c) >= 2 => c[2].lang = (IF lang = "en" THEN "pl" ELSE NoHint)
        /\ Len(c) >= 3 => c[3].lang = NoHint
        /\ Len(c) <= (IF lang = "en" THEN 3 ELSE 2)

\* C8: the fetches of a request are issued one at a time in the order
\* requested language, "pl" (only for "en"), no hint: every fetch but the
\* last one has failed, only the last one can be pending, there are at most
\* 3 fetches for "en" and 2 otherwise, none is repeated, and once a fetch
\* has succeeded the request issues no further fetch.
C8_SequentialChain ==
    /\ [](\A r \in Reqs :
            /\ ChainOrder(r)
            /\ \A i \in 1..(Len(calls[r]) - 1) : calls[r][i].status = "err"
            /\ \A i, j \in 1..Len(calls[r]) : i # j => calls[r][i].lang # calls[r][j].lang
            /\ pc[r] = "done" /\ calls[r] # <<>> => Last(calls[r]).status # "pending")
    /\ [][\A r \in Reqs :
            (\E i \in 1..Len(calls[r]) : calls[r][i].status = "ok")
                => calls'[r] = calls[r]]_vars

C8_Witness ==
    \E r \in Reqs :
        /\ language(req[r]) = "en"
        /\ Len(calls[r]) = 3
        /\ calls[r][2].lang = "pl" /\ calls[r][2].status = "err"
        /\ calls[r][3].lang = NoHint /\ calls[r][3].status = "pending"

WellFormed(resp) ==
    \/ /\ resp.status = 200
       /\ resp.body.success
       /\ resp.body.error = <<>>
       /\ resp.body.transcript.type \in {"text", "segments"}
       /\ resp.body.language # ""
    \/ /\ resp.status \in {400, 403, 404, 500}
       /\ ~resp.body.success
       /\ resp.body.error # <<>>
       /\ resp.body.transcript = Absent
       /\ resp.body.language = ""

\* C9: every request that reached a handler is eventually answered, and at
\* every moment it has at most one response, which is a success envelope
\* (status 200, a transcript and a language) or an error envelope with
\* status 400, 403, 404 or 500; a handler that has finished has exactly one.
C9_ExactlyOneResponse ==
    /\ [](\A r \in Reqs :
            /\ Len(responses[r]) <= 1
            /\ pc[r] = "done" <=> Len(responses[r]) = 1
            /\ \A i \in 1..Len(responses[r]) : WellFormed(responses[r][i]))
    /\ \A r \in Reqs : (pc[r] # "idle") ~> Answered(r)

C9_Witness ==
    \E r \in Reqs :
        /\ Answered(r)
        /\ Len(calls[r]) = 3
        /\ Reply(r).status = 404

local(r) == <<pc[r], req[r], calls[r], result[r], responses[r]>>
outcomes(r) ==
    [i \in 1..Len(calls[r]) |->
        <<calls[r][i].status, calls[r][i].segs, calls[r][i].msg>>]

\* C10: under every interleaving, two answered requests with the same
\* parameters and the same outcomes of their own fetches have the same
\* response and the same resolver result; a step changes the state of one
\* request only; and a request whose fetch has settled can resume, and a
\* new request can be taken, whatever the other requests are waiting for.
C10_Independent ==
    /\ [](\A r1, r2 \in Reqs :
            (/\ pc[r1] = "done" /\ pc[r2] = "done"
             /\ req[r1] = req[r2]
             /\ outcomes(r1) = outcomes(r2)) =>
                /\ responses[r1] = responses[r2]
                /\ result[r1] = result[r2])
    /\ [][Cardinality({r \in Reqs : local(r)' # local(r)}) <= 1]_vars
    /\ [](\A r \in Reqs :
            /\ pc[r] = "idle" => ENABLED Arrive(r, ConcRequests)
            /\ (pc[r] \in {"await_lang", "await_pl", "await_any"}
                /\ Last(calls[r]).status # "pending") => ENABLED Resume(r))

C10_Witness ==
    \E r1, r2, r3 \in Reqs :
        /\ r1 # r2
        /\ pc[r1] = "done" /\ pc[r2] = "done"
        /\ req[r1] = req[r2] /\ outcomes(r1) = outcomes(r2)
        /\ Len(calls[r1]) = 2
        /\ pc[r3] = "await_pl" /\ Last(calls[r3]).status = "pending"
        /\ req[r3] # req[r1]

====
